---- MODULE Spec2Model ----
(***************************************************************************)
(* Sale-transaction orchestrator (SellService.processSales) and the        *)
(* cache-aside layer (GenericService) of crm_uapa_final-ts, over the       *)
(* repository layer (GenericRepository) and the Redis facade (Cache).      *)
(*                                                                         *)
(* Abstractions: money is counted in whole units; an entity is a record of *)
(* the columns the modelled code reads or writes; a cache key              *)
(* `${entityName}:${id}` is the pair <<entityName, id>>; error messages     *)
(* carry no interpolated values.                                           *)
(***************************************************************************)
EXTENDS Integers, Sequences, FiniteSets, TLC

VARIABLES
  db,          \* the relational store: one table (id -> row) per entity
  nextId,      \* the store's auto-increment counter per table
  cache,       \* the Redis keyspace: key -> [value, ttl]
  receipts,    \* object storage: ids of the bills whose receipt was uploaded
  entityName,  \* GenericService.entityName of the service under exercise
  pc,          \* per request: the await processSales is suspended at
  dto,         \* per request: the ProcessSalesDTO
  idx,         \* per request: position of the for-of loop over dto.sales
  product,     \* per request: the local `product` of the loop body
  bill,        \* per request: the local `bill`
  savedBill,   \* per request: the local `savedBill`
  result,      \* per request: what processSales returned or threw
  pre,         \* history: the store tables when the request started
  log,         \* history: the store writes the request has issued
  billRequest, \* history: bill id -> the request that persisted it
  calls,       \* history: number of processSales calls started
  ret,         \* the last cache-aside operation and what it returned
  saved,       \* history: id -> entity returned by save, until update/delete
  failure,     \* what a store, Cognito or KMS call failed with, and where
  err,         \* the value thrown to the route, which hands it to next()
  res,         \* the response errorHandler sent for err
  inflight     \* per caller: the GenericService call suspended at an await

vars == <<db, nextId, cache, receipts, entityName, pc, dto, idx, product,
          bill, savedBill, result, pre, log, billRequest, calls, ret, saved,
          failure, err, res, inflight>>

saleVars  == <<pc, dto, idx, product, bill, savedBill, result, pre, log,
               billRequest, calls, receipts>>
layerVars == <<ret, saved>>
edgeVars  == <<failure, err, res>>

----------------------------------------------------------------------------
(* Bounds and fixtures                                                     *)

MaxLines == 2      \* longest dto.sales
MaxCalls == 2      \* processSales calls per behaviour
MaxRows  == 2      \* rows a table may receive through GenericService.save
TTL      == 3600

Sessions    == {"s1", "s2"}
ProductIds  == {1, 2}
CustomerIds == {1}
Quantities  == {1, 3}
SalePrices  == {12}
InitStock   == <<5, 2>>
Times       == {1}

----------------------------------------------------------------------------
(* Values                                                                  *)

Null == [null |-> TRUE]

Return(v)        == [value |-> v]
Stored(v, table) == [value |-> v, table |-> table]
Throw(e)         == [error |-> e]
IsThrow(r)       == "error" \in DOMAIN r

With(f, k, v) == [x \in DOMAIN f \cup {k} |-> IF x = k THEN v ELSE f[x]]
Without(f, k) == [x \in DOMAIN f \ {k} |-> f[x]]

(* errors *)
NotFoundMessage(resource) ==
  IF resource = "Entity" THEN "Entity not found"
  ELSE IF resource = "User" THEN "User not found"
  ELSE "Resource not found"
NotFoundError(resource) ==
  [name |-> "NotFoundError", statusCode |-> 404,
   message |-> NotFoundMessage(resource)]
BaseAppException(message) ==
  [name |-> "BaseAppException", statusCode |-> 500, message |-> message]
RedisError(message) ==
  [name |-> "RedisError", statusCode |-> 500, message |-> message]
\* super(message, statusCode, metadata): metadata stays undefined (no field
\* here) unless the constructor is given one
NewBaseAppException(message, statusCode, details) ==
  [name |-> "BaseAppException", statusCode |-> statusCode,
   message |-> message, metadata |-> details]
DatabaseError(message, details) ==
  [name |-> "DatabaseError", statusCode |-> 500, message |-> message,
   metadata |-> details]
AuthError(message) ==
  [name |-> "AuthError", statusCode |-> 401, message |-> message]
RequestValidationError(details) ==
  [name |-> "RequestValidationError", statusCode |-> 400,
   message |-> "Validation failed", metadata |-> details]
DuplicateRecordError(message) ==
  [name |-> "DuplicateRecordError", statusCode |-> 409, message |-> message]
ForeignKeyViolationError(message) ==
  [name |-> "ForeignKeyViolationError", statusCode |-> 400,
   message |-> message]

\* err instanceof Error, err instanceof CustomError
CustomErrorNames ==
  {"NotFoundError", "BaseAppException", "RedisError", "DatabaseError",
   "AuthError", "RequestValidationError", "DuplicateRecordError",
   "ForeignKeyViolationError"}
IsError(v)       == "name" \in DOMAIN v
IsCustomError(v) == IsError(v) /\ v.name \in CustomErrorNames

\* an Error that is no CustomError: a TypeORM or AWS SDK exception, or a
\* plain Error
Exception(name, message) == [name |-> name, message |-> message]

\* thrown values that are no Error objects, and String(value)
ThrownString(text) == [typeof |-> "string", value |-> text]
ThrownObject(text) == [typeof |-> "object", value |-> text]
String(v) == IF v.typeof = "string" THEN v.value ELSE "[object Object]"

\* a built-in TypeError is no CustomError and carries no status (0 here)
TypeError(message) ==
  [name |-> "TypeError", statusCode |-> 0, message |-> message]

(* JSON.stringify / JSON.parse.  A Date serialises through toJSON to its   *)
(* ISO string and JSON.parse (no reviver) leaves that string a string;     *)
(* Bill.date is the only Date column of the entities.                      *)
DateAt(t)      == <<"Date", t>>
ToISOString(d) == <<"string", d[2]>>
JSONstringify(v) ==
  [json |-> IF "date" \in DOMAIN v
              THEN [v EXCEPT !.date = ToISOString(v.date)]
              ELSE v]
JSONparse(text) == text.json

\* arrays and the {data, count} page serialise element by element
JSONstringifyAll(entities) ==
  [json |-> [i \in DOMAIN entities |-> JSONstringify(entities[i]).json]]
JSONstringifyPage(page) ==
  [json |-> [data |-> JSONstringifyAll(page.data).json, count |-> page.count]]

\* a string that is no JSON text makes JSON.parse throw a SyntaxError
NotJSON == [text |-> "not JSON"]
SyntaxError(message) ==
  [name |-> "SyntaxError", statusCode |-> 0, message |-> message]
TryJSONparse(text) ==
  IF "json" \in DOMAIN text THEN Return(JSONparse(text))
  ELSE Throw(SyntaxError("Unexpected token in JSON"))

----------------------------------------------------------------------------
(* GenericRepository                                                       *)

CreateEntity_NotStored(table, id, entity, kind, t) ==
  Stored([f \in DOMAIN entity \cup {"id"} |->
            IF f = "id" THEN id ELSE entity[f]], table)

\* repo.save(entity): the store assigns the generated columns (the primary
\* key; for a bill also the creation date) and returns the saved entity.
CreateEntity(table, id, entity, kind, t) ==
  LET generated == IF kind = "bill" THEN {"id", "date"} ELSE {"id"}
      savedEntity ==
        [f \in DOMAIN entity \cup generated |->
           IF f = "id" THEN id
           ELSE IF f = "date" /\ kind = "bill" THEN DateAt(t)
           ELSE entity[f]]
  IN Stored(savedEntity, With(table, id, savedEntity))

FindEntityById_ReturnsNull(table, id) ==
  IF id \notin DOMAIN table THEN Return(Null) ELSE Return(table[id])

FindEntityById(table, id) ==
  IF id \notin DOMAIN table
    THEN Throw(NotFoundError("Entity"))
    ELSE Return(table[id])

UpdateEntity_NotWritten(table, id, updatedData) ==
  IF id \notin DOMAIN table
    THEN Throw(NotFoundError("Entity"))
    ELSE Stored(table[id], table)

\* repo.update(id, updatedData) then repo.findOneBy({id})
UpdateEntity(table, id, updatedData) ==
  IF id \notin DOMAIN table
    THEN Throw(NotFoundError("Entity"))
    ELSE LET updatedEntity ==
               [f \in DOMAIN table[id] |->
                  IF f \in DOMAIN updatedData THEN updatedData[f]
                  ELSE table[id][f]]
         IN Stored(updatedEntity, With(table, id, updatedEntity))

DeleteEntity_AffectedIgnored(table, id) == Stored(TRUE, Without(table, id))

DeleteEntity(table, id) ==
  IF id \notin DOMAIN table
    THEN Throw(NotFoundError("Entity"))
    ELSE Stored(TRUE, Without(table, id))

RECURSIVE SortedIds(_)
SortedIds(ids) ==
  IF ids = {} THEN <<>>
  ELSE LET first == CHOOSE i \in ids : \A j \in ids : i <= j
       IN <<first>> \o SortedIds(ids \ {first})

\* repo.find(): every row, in primary-key order
GetAllEntities(table) ==
  LET ids == SortedIds(DOMAIN table)
  IN [i \in 1..Len(ids) |-> table[ids[i]]]

\* repo.findAndCount({skip, take})
GetEntitiesWithPagination(table, skip, take) ==
  LET all == GetAllEntities(table)
      last == IF skip + take < Len(all) THEN skip + take ELSE Len(all)
  IN [data |-> SubSeq(all, skip + 1, last), count |-> Len(all)]

----------------------------------------------------------------------------
(* Cache                                                                   *)

CacheKey(name, id) == <<name, id>>
CacheSet(c, key, value, ttl) == With(c, key, [value |-> value, ttl |-> ttl])
CacheGet_Miss(c, key) == Null

CacheGet(c, key) == IF key \in DOMAIN c THEN c[key].value ELSE Null
CacheDelete(c, key) == Without(c, key)

\* what set, get and delete throw when the Redis client rejects
CacheSetError    == RedisError("Redis set error")
CacheGetError    == RedisError("Redis get error")
CacheDeleteError == RedisError("Redis delete error")

----------------------------------------------------------------------------
(* SellService.processSales                                                *)

SeqsUpTo(S, n) == UNION {[1..k -> S] : k \in 0..n}
SaleDTOs == [productId : ProductIds, quantity : Quantities,
             sale_price : SalePrices]
Requests == [customerId : CustomerIds, sales : SeqsUpTo(SaleDTOs, MaxLines)]

NoProduct == [id |-> 0, available_quantity |-> 0]
NoBill    == [customer |-> Null, total_amount |-> 0, sales |-> <<>>]
NoDTO     == [customerId |-> 0, sales |-> <<>>]
Tables    == [customer |-> db.customer, product |-> db.product,
              bill |-> db.bill]

InsufficientStock_OutOfStockOnly(p, saleDTO) == p.available_quantity < 1

InsufficientStock(p, saleDTO) == p.available_quantity < saleDTO.quantity

DecrementStock_ByOne(p, saleDTO) ==
  [p EXCEPT !.available_quantity = @ - 1]

DecrementStock(p, saleDTO) ==
  [p EXCEPT !.available_quantity = @ - saleDTO.quantity]

NewSale(p, saleDTO) ==
  [product |-> p.id, quantity |-> saleDTO.quantity,
   sale_price |-> saleDTO.sale_price]

AddSale_IgnoresQuantity(b, sale) ==
  [b EXCEPT !.sales = Append(@, sale),
            !.total_amount = @ + sale.sale_price]

AddSale(b, sale) ==
  [b EXCEPT !.sales = Append(@, sale),
            !.total_amount = @ + sale.sale_price * sale.quantity]

Fail_Wrapped(s, e) ==
  /\ pc' = [pc EXCEPT ![s] = "done"]
  /\ result' = [result EXCEPT ![s] =
                  [error |-> BaseAppException("Error processing sale"),
                   at |-> pc[s]]]

Fail(s, e) ==
  /\ pc' = [pc EXCEPT ![s] = "done"]
  /\ result' = [result EXCEPT ![s] = [error |-> e, at |-> pc[s]]]

StartProcessSales(s, salesDTO) ==
  /\ pc[s] \in {"idle", "done"}
  /\ calls < MaxCalls
  /\ calls' = calls + 1
  /\ pc' = [pc EXCEPT ![s] = "findCustomer"]
  /\ dto' = [dto EXCEPT ![s] = salesDTO]
  /\ idx' = [idx EXCEPT ![s] = 1]
  /\ product' = [product EXCEPT ![s] = NoProduct]
  /\ bill' = [bill EXCEPT ![s] = NoBill]
  /\ savedBill' = [savedBill EXCEPT ![s] = Null]
  /\ result' = [result EXCEPT ![s] = Null]
  /\ pre' = [pre EXCEPT ![s] = Tables]
  /\ log' = [log EXCEPT ![s] = <<>>]
  /\ UNCHANGED <<db, nextId, cache, receipts, entityName, billRequest,
                 layerVars, edgeVars, inflight>>

\* 1: retrieve the customer; 2: open the bill
FindCustomer(s) ==
  /\ pc[s] = "findCustomer"
  /\ LET r == FindEntityById(db.customer, dto[s].customerId)
     IN IF IsThrow(r) THEN Fail(s, r.error) /\ UNCHANGED bill
        ELSE IF r.value = Null
          THEN Fail(s, BaseAppException("Customer not found"))
               /\ UNCHANGED bill
        ELSE /\ bill' = [bill EXCEPT ![s] =
                           [customer |-> r.value, total_amount |-> 0,
                            sales |-> <<>>]]
             /\ pc' = [pc EXCEPT ![s] =
                         IF dto[s].sales = <<>> THEN "createBill"
                         ELSE "findProduct"]
             /\ UNCHANGED result
  /\ UNCHANGED <<db, nextId, cache, receipts, entityName, dto, idx, product,
                 savedBill, pre, log, billRequest, calls, layerVars, edgeVars,
                 inflight>>

\* 3: resolve the product of the current line and check its stock
FindProduct(s) ==
  /\ pc[s] = "findProduct"
  /\ LET saleDTO == dto[s].sales[idx[s]]
         r == FindEntityById(db.product, saleDTO.productId)
     IN IF IsThrow(r) THEN Fail(s, r.error) /\ UNCHANGED product
        ELSE IF r.value = Null
          THEN Fail(s, BaseAppException("Product not found"))
               /\ UNCHANGED product
        ELSE IF InsufficientStock(r.value, saleDTO)
          THEN Fail(s, BaseAppException("Insufficient stock for product"))
               /\ UNCHANGED product
        ELSE /\ product' = [product EXCEPT ![s] =
                              DecrementStock(r.value, saleDTO)]
             /\ pc' = [pc EXCEPT ![s] = "updateStock"]
             /\ UNCHANGED result
  /\ UNCHANGED <<db, nextId, cache, receipts, entityName, dto, idx, bill,
                 savedBill, pre, log, billRequest, calls, layerVars, edgeVars,
                 inflight>>

\* 3: write the decremented stock, then append the sale to the bill
UpdateStock(s) ==
  /\ pc[s] = "updateStock"
  /\ LET saleDTO == dto[s].sales[idx[s]]
         r == UpdateEntity(db.product, saleDTO.productId, product[s])
     IN IF IsThrow(r)
          THEN Fail(s, r.error) /\ UNCHANGED <<db, bill, idx, log>>
          ELSE /\ db' = [db EXCEPT !.product = r.table]
               /\ log' = [log EXCEPT ![s] =
                            Append(@, <<"updateEntity", saleDTO.productId>>)]
               /\ bill' = [bill EXCEPT ![s] =
                             AddSale(@, NewSale(product[s], saleDTO))]
               /\ idx' = [idx EXCEPT ![s] = @ + 1]
               /\ pc' = [pc EXCEPT ![s] =
                           IF idx[s] + 1 > Len(dto[s].sales)
                             THEN "createBill" ELSE "findProduct"]
               /\ UNCHANGED result
  /\ UNCHANGED <<nextId, cache, receipts, entityName, dto, product,
                 savedBill, pre, billRequest, calls, layerVars, edgeVars,
                 inflight>>

\* 4: save the bill, cascading its sales
CreateBill(s) ==
  /\ pc[s] = "createBill"
  /\ \E t \in Times :
       LET r == CreateEntity(db.bill, nextId.bill, bill[s], "bill", t)
       IN IF r.value = Null
            THEN Fail(s, BaseAppException("Error saving bill"))
                 /\ UNCHANGED <<db, nextId, savedBill, log, billRequest>>
            ELSE /\ db' = [db EXCEPT !.bill = r.table]
                 /\ nextId' = [nextId EXCEPT !.bill = @ + 1]
                 /\ savedBill' = [savedBill EXCEPT ![s] = r.value]
                 /\ log' = [log EXCEPT ![s] =
                              Append(@, <<"createEntity", r.value.id>>)]
                 /\ billRequest' = With(billRequest, r.value.id, dto[s])
                 /\ pc' = [pc EXCEPT ![s] = "getBucket"]
                 /\ UNCHANGED result
  /\ UNCHANGED <<cache, receipts, entityName, dto, idx, product, bill, pre,
                 calls, layerVars, edgeVars, inflight>>

\* 5: look the bucket name up (getCachedParameter)
GetBucket(s) ==
  /\ pc[s] = "getBucket"
  /\ \/ pc' = [pc EXCEPT ![s] = "uploadFile"] /\ UNCHANGED result
     \/ Fail(s, RedisError("Could not fetch parameter"))
  /\ UNCHANGED <<db, nextId, cache, receipts, entityName, dto, idx, product,
                 bill, savedBill, pre, log, billRequest, calls, layerVars,
                 edgeVars, inflight>>

UploadFile_Skipped(s) ==
  /\ pc[s] = "uploadFile"
  /\ pc' = [pc EXCEPT ![s] = "cacheBill"]
  /\ UNCHANGED <<db, nextId, cache, receipts, entityName, dto, idx, product,
                 bill, savedBill, result, pre, log, billRequest, calls,
                 layerVars, edgeVars, inflight>>

\* 5: upload the receipt (uploadFile)
UploadFile(s) ==
  /\ pc[s] = "uploadFile"
  /\ \/ /\ receipts' = receipts \cup {savedBill[s].id}
        /\ pc' = [pc EXCEPT ![s] = "cacheBill"]
        /\ UNCHANGED result
     \/ Fail(s, BaseAppException("Error uploading file"))
        /\ UNCHANGED receipts
  /\ UNCHANGED <<db, nextId, cache, entityName, dto, idx, product, bill,
                 savedBill, pre, log, billRequest, calls, layerVars, edgeVars,
                 inflight>>

\* 7: cache the saved bill under bill:{id} and return true
CacheBill(s) ==
  /\ pc[s] = "cacheBill"
  /\ \/ /\ cache' = CacheSet(cache, CacheKey("bill", savedBill[s].id),
                             JSONstringify(savedBill[s]), TTL)
        /\ pc' = [pc EXCEPT ![s] = "done"]
        /\ result' = [result EXCEPT ![s] = Return(TRUE)]
     \/ Fail(s, RedisError("Redis set error")) /\ UNCHANGED cache
     \* every sale holds a back-reference to its bill (sale.bill = bill), so
     \* when the store hands the same object graph back, JSON.stringify
     \* rejects the saved bill
     \/ /\ savedBill[s].sales # <<>>
        /\ Fail(s, TypeError("Converting circular structure to JSON"))
        /\ UNCHANGED cache
  /\ UNCHANGED <<db, nextId, receipts, entityName, dto, idx, product, bill,
                 savedBill, pre, log, billRequest, calls, layerVars, edgeVars,
                 inflight>>

ProcessSales(s) ==
  \/ \E salesDTO \in Requests : StartProcessSales(s, salesDTO)
  \/ FindCustomer(s)
  \/ FindProduct(s)
  \/ UpdateStock(s)
  \/ CreateBill(s)
  \/ GetBucket(s)
  \/ UploadFile(s)
  \/ CacheBill(s)

----------------------------------------------------------------------------
(* Specification of the sale orchestrator: one request at a time, over a   *)
(* store holding some of the customers and products.                       *)

ProductRow(p) == [id |-> p, available_quantity |-> InitStock[p]]
CustomerRow(c) == [id |-> c]

Init ==
  /\ \E C \in SUBSET CustomerIds, P \in {{1}, {1, 2}} :
       db = [customer |-> [c \in C |-> CustomerRow(c)],
             product |-> [p \in P |-> ProductRow(p)],
             bill |-> <<>>]
  /\ nextId = [customer |-> 2, product |-> 3, bill |-> 1]
  /\ cache = <<>>
  /\ receipts = {}
  /\ entityName = "sale"
  /\ pc = [s \in Sessions |-> "idle"]
  /\ dto = [s \in Sessions |-> NoDTO]
  /\ idx = [s \in Sessions |-> 1]
  /\ product = [s \in Sessions |-> NoProduct]
  /\ bill = [s \in Sessions |-> NoBill]
  /\ savedBill = [s \in Sessions |-> Null]
  /\ result = [s \in Sessions |-> Null]
  /\ pre = [s \in Sessions |-> [customer |-> <<>>, product |-> <<>>,
                                  bill |-> <<>>]]
  /\ log = [s \in Sessions |-> <<>>]
  /\ billRequest = <<>>
  /\ calls = 0
  /\ ret = Null
  /\ saved = <<>>
  /\ failure = Null
  /\ err = Null
  /\ res = Null
  /\ inflight = [s \in Sessions |-> Null]

Next == ProcessSales("s1")

Spec == Init /\ [][Next]_vars

----------------------------------------------------------------------------
(* Concurrent requests: Express runs each processSales call up to its next *)
(* await, so the steps of two calls interleave.  Each session sends one    *)
(* request of one line.                                                    *)

OneLineRequests == {r \in Requests : Len(r.sales) = 1}

NextConc ==
  \E s \in Sessions :
    \/ \E salesDTO \in OneLineRequests :
         pc[s] = "idle" /\ StartProcessSales(s, salesDTO)
    \/ FindCustomer(s)
    \/ FindProduct(s)
    \/ UpdateStock(s)
    \/ CreateBill(s)
    \/ GetBucket(s)
    \/ UploadFile(s)
    \/ CacheBill(s)

SpecConc == Init /\ [][NextConc]_vars

----------------------------------------------------------------------------
(* GenericService: the cache-aside layer of one entity service             *)

EntityNames == {"product", "bill"}
RowIds      == 1..(MaxRows + 1)

NewEntities(name) ==
  IF name = "product" THEN [available_quantity : {2, 5}]
  ELSE [customer : {1}, total_amount : {0, 36}, sales : {<<>>}]

Partials(name) ==
  IF name = "product" THEN [available_quantity : {2, 5}]
  ELSE [total_amount : {0, 36}]

Outcome(op, id, source, outcome) ==
  [op |-> op, id |-> id, source |-> source, outcome |-> outcome]

Skips == {1, 2}
Takes == {2}

AllKey(name)                    == <<name, "all", 0>>
PaginationKey(name, skip, take) == <<name, "pagination", skip, take>>
KeyId(key) == IF Len(key) = 2 THEN key[2] ELSE 0
ListKeys(name) ==
  {AllKey(name)}
    \cup {PaginationKey(name, skip, take) : skip \in Skips, take \in Takes}

\* a cache operation of the handler threw: the rejected await ends the handler
Faulted(o, fault) ==
  [f \in DOMAIN o \cup {"fault"} |-> IF f = "fault" THEN fault ELSE o[f]]

\* findPaginated's arguments, kept with its outcome
Paged(o, skip, take) ==
  [f \in DOMAIN o \cup {"skip", "take"} |->
     IF f = "skip" THEN skip ELSE IF f = "take" THEN take ELSE o[f]]

\* `if (cached) return JSON.parse(cached)`: the store is not read
Hit(op, id, cached) ==
  LET parsed == TryJSONparse(cached)
  IN IF IsThrow(parsed) THEN Faulted(Outcome(op, id, "cache", parsed), "parse")
     ELSE Outcome(op, id, "cache", parsed)

SaveCache(c, name, savedEntity) ==
  IF savedEntity # Null /\ savedEntity.id # 0
    THEN CacheSet(c, CacheKey(name, savedEntity.id),
                  JSONstringify(savedEntity), TTL)
    ELSE c

UpdateCache_NoRefresh(c, name, id, updatedEntity) == c

UpdateCache(c, name, id, updatedEntity) ==
  IF updatedEntity # Null
    THEN CacheSet(c, CacheKey(name, id), JSONstringify(updatedEntity), TTL)
    ELSE c

DeleteCache(c, name, id, deleted) ==
  IF deleted THEN CacheDelete(c, CacheKey(name, id)) ELSE c

Save(entity) ==
  /\ nextId[entityName] <= MaxRows
  /\ \E t \in Times :
       LET r == CreateEntity(db[entityName], nextId[entityName], entity,
                             entityName, t)
       IN /\ db' = [db EXCEPT ![entityName] = r.table]
          /\ nextId' = [nextId EXCEPT ![entityName] = @ + 1]
          /\ \/ /\ cache' = SaveCache(cache, entityName, r.value)
                /\ ret' = Outcome("save", r.value.id, "store",
                                  Return(r.value))
                /\ saved' = With(saved, r.value.id, r.value)
             \/ /\ ret' = Faulted(Outcome("save", r.value.id, "store",
                                          Throw(CacheSetError)), "set")
                /\ UNCHANGED <<cache, saved>>
  /\ UNCHANGED <<entityName, saleVars, edgeVars, inflight>>

FindById(id) ==
  /\ LET cacheKey == CacheKey(entityName, id)
         cachedEntity == CacheGet(cache, cacheKey)
         r == FindEntityById(db[entityName], id)
     IN \/ /\ ret' = Faulted(Outcome("findById", id, "cache",
                                     Throw(CacheGetError)), "get")
           /\ UNCHANGED cache
        \/ IF cachedEntity # Null
             THEN /\ ret' = Hit("findById", id, cachedEntity)
                  /\ UNCHANGED cache
           ELSE IF IsThrow(r)
             THEN /\ ret' = Outcome("findById", id, "store", r)
                  /\ UNCHANGED cache
           ELSE IF r.value = Null
             THEN /\ ret' = Outcome("findById", id, "store", Return(Null))
                  /\ UNCHANGED cache
           ELSE \/ /\ cache' = CacheSet(cache, cacheKey,
                                        JSONstringify(r.value), TTL)
                   /\ ret' = Outcome("findById", id, "store",
                                     Return(r.value))
                \/ /\ ret' = Faulted(Outcome("findById", id, "store",
                                             Throw(CacheSetError)), "set")
                   /\ UNCHANGED cache
  /\ UNCHANGED <<db, nextId, entityName, saved, saleVars, edgeVars, inflight>>

Update(id, updatedData) ==
  /\ LET r == UpdateEntity(db[entityName], id, updatedData)
     IN IF IsThrow(r)
          THEN /\ ret' = Outcome("update", id, "store", r)
               /\ UNCHANGED <<db, cache, saved>>
          ELSE /\ db' = [db EXCEPT ![entityName] = r.table]
               /\ saved' = Without(saved, id)
               /\ \/ /\ cache' = UpdateCache(cache, entityName, id, r.value)
                     /\ ret' = Outcome("update", id, "store",
                                       Return(r.value))
                  \/ /\ ret' = Faulted(Outcome("update", id, "store",
                                               Throw(CacheSetError)), "set")
                     /\ UNCHANGED cache
  /\ UNCHANGED <<nextId, entityName, saleVars, edgeVars, inflight>>

Delete(id) ==
  /\ LET r == DeleteEntity(db[entityName], id)
     IN IF IsThrow(r)
          THEN /\ ret' = Outcome("delete", id, "store", r)
               /\ UNCHANGED <<db, cache, saved>>
          ELSE /\ db' = [db EXCEPT ![entityName] = r.table]
               /\ saved' = Without(saved, id)
               /\ \/ /\ cache' = DeleteCache(cache, entityName, id, r.value)
                     /\ ret' = Outcome("delete", id, "store",
                                       Return(r.value))
                  \/ /\ ret' = Faulted(Outcome("delete", id, "store",
                                               Throw(CacheDeleteError)),
                                       "delete")
                     /\ UNCHANGED cache
  /\ UNCHANGED <<nextId, entityName, saleVars, edgeVars, inflight>>

FindAll ==
  /\ LET cacheKey == AllKey(entityName)
         cachedEntities == CacheGet(cache, cacheKey)
         entities == GetAllEntities(db[entityName])
     IN \/ /\ ret' = Faulted(Outcome("findAll", 0, "cache",
                                     Throw(CacheGetError)), "get")
           /\ UNCHANGED cache
        \/ IF cachedEntities # Null
             THEN /\ ret' = Hit("findAll", 0, cachedEntities)
                  /\ UNCHANGED cache
           ELSE IF Len(entities) > 0
             THEN \/ /\ cache' = CacheSet(cache, cacheKey,
                                          JSONstringifyAll(entities), TTL)
                     /\ ret' = Outcome("findAll", 0, "store",
                                       Return(entities))
                  \/ /\ ret' = Faulted(Outcome("findAll", 0, "store",
                                               Throw(CacheSetError)), "set")
                     /\ UNCHANGED cache
           ELSE /\ ret' = Outcome("findAll", 0, "store", Return(entities))
                /\ UNCHANGED cache
  /\ UNCHANGED <<db, nextId, entityName, saved, saleVars, edgeVars, inflight>>

FindPaginated(skip, take) ==
  /\ LET cacheKey == PaginationKey(entityName, skip, take)
         cachedData == CacheGet(cache, cacheKey)
         found == GetEntitiesWithPagination(db[entityName], skip, take)
         Done(o) == ret' = Paged(o, skip, take)
     IN \/ /\ Done(Faulted(Outcome("findPaginated", 0, "cache",
                                     Throw(CacheGetError)), "get"))
           /\ UNCHANGED cache
        \/ IF cachedData # Null
             THEN /\ Done(Hit("findPaginated", 0, cachedData))
                  /\ UNCHANGED cache
           ELSE IF Len(found.data) > 0
             THEN \/ /\ cache' = CacheSet(cache, cacheKey,
                                          JSONstringifyPage(found), TTL)
                     /\ Done(Outcome("findPaginated", 0, "store",
                                     Return(found)))
                  \/ /\ Done(Faulted(Outcome("findPaginated", 0, "store",
                                               Throw(CacheSetError)), "set"))
                     /\ UNCHANGED cache
           ELSE /\ Done(Outcome("findPaginated", 0, "store", Return(found)))
                /\ UNCHANGED cache
  /\ UNCHANGED <<db, nextId, entityName, saved, saleVars, edgeVars, inflight>>

\* Redis drops an entry once its TTL has elapsed
Expire(key) ==
  /\ key \in DOMAIN cache
  /\ cache' = CacheDelete(cache, key)
  /\ ret' = Outcome("expire", KeyId(key), "cache", Return(Null))
  /\ UNCHANGED <<db, nextId, entityName, saved, saleVars, edgeVars, inflight>>

\* Redis is a shared service: a client other than GenericService stores,
\* under one of the service's keys, a string that is no JSON text (one such
\* value at a time)
ForeignWrite(key) ==
  /\ \A k \in DOMAIN cache : cache[k].value # NotJSON
  /\ cache' = CacheSet(cache, key, NotJSON, TTL)
  /\ ret' = Outcome("foreignWrite", KeyId(key), "cache", Return(Null))
  /\ UNCHANGED <<db, nextId, entityName, saved, saleVars, edgeVars, inflight>>

InitCache ==
  /\ entityName \in EntityNames
  /\ db = [customer |-> <<>>, product |-> <<>>, bill |-> <<>>]
  /\ nextId = [customer |-> 1, product |-> 1, bill |-> 1]
  /\ cache = <<>>
  /\ receipts = {}
  /\ pc = [s \in Sessions |-> "idle"]
  /\ dto = [s \in Sessions |-> NoDTO]
  /\ idx = [s \in Sessions |-> 1]
  /\ product = [s \in Sessions |-> NoProduct]
  /\ bill = [s \in Sessions |-> NoBill]
  /\ savedBill = [s \in Sessions |-> Null]
  /\ result = [s \in Sessions |-> Null]
  /\ pre = [s \in Sessions |-> [customer |-> <<>>, product |-> <<>>,
                                  bill |-> <<>>]]
  /\ log = [s \in Sessions |-> <<>>]
  /\ billRequest = <<>>
  /\ calls = 0
  /\ ret = Null
  /\ saved = <<>>
  /\ failure = Null
  /\ err = Null
  /\ res = Null
  /\ inflight = [s \in Sessions |-> Null]

NextCache ==
  \/ \E entity \in NewEntities(entityName) : Save(entity)
  \/ \E id \in RowIds : FindById(id)
  \/ \E id \in RowIds, updatedData \in Partials(entityName) :
       Update(id, updatedData)
  \/ \E id \in RowIds : Delete(id)
  \/ \E key \in DOMAIN cache : Expire(key)

SpecCache == InitCache /\ [][NextCache]_vars

\* The list operations, over a service whose entities differ in their id
\* only
ListEntity  == [available_quantity |-> 5]

InitList == InitCache /\ entityName = "product"

NextList ==
  \/ Save(ListEntity)
  \/ \E id \in RowIds : FindById(id)
  \/ \E id \in RowIds : Delete(id)
  \/ FindAll
  \/ \E skip \in Skips, take \in Takes : FindPaginated(skip, take)
  \/ \E key \in DOMAIN cache : Expire(key)
  \/ \E key \in DOMAIN cache : ForeignWrite(key)

SpecList == InitList /\ [][NextList]_vars

----------------------------------------------------------------------------
(* Sales next to the product service: processSales writes the stock        *)
(* through ProductRepository while ProductService.findById answers reads   *)
(* of the same products through the cache.  One request of one line at a   *)
(* time, over a store holding the customer and both products.              *)

InitShop ==
  /\ db = [customer |-> [c \in CustomerIds |-> CustomerRow(c)],
           product |-> [p \in ProductIds |-> ProductRow(p)],
           bill |-> <<>>]
  /\ nextId = [customer |-> 2, product |-> 3, bill |-> 1]
  /\ cache = <<>>
  /\ receipts = {}
  /\ entityName = "product"
  /\ pc = [s \in Sessions |-> "idle"]
  /\ dto = [s \in Sessions |-> NoDTO]
  /\ idx = [s \in Sessions |-> 1]
  /\ product = [s \in Sessions |-> NoProduct]
  /\ bill = [s \in Sessions |-> NoBill]
  /\ savedBill = [s \in Sessions |-> Null]
  /\ result = [s \in Sessions |-> Null]
  /\ pre = [s \in Sessions |-> [customer |-> <<>>, product |-> <<>>,
                                  bill |-> <<>>]]
  /\ log = [s \in Sessions |-> <<>>]
  /\ billRequest = <<>>
  /\ calls = 0
  /\ ret = Null
  /\ saved = <<>>
  /\ failure = Null
  /\ err = Null
  /\ res = Null
  /\ inflight = [s \in Sessions |-> Null]

NextShop ==
  \/ \E salesDTO \in OneLineRequests : StartProcessSales("s1", salesDTO)
  \/ FindCustomer("s1")
  \/ FindProduct("s1")
  \/ UpdateStock("s1")
  \/ CreateBill("s1")
  \/ GetBucket("s1")
  \/ UploadFile("s1")
  \/ CacheBill("s1")
  \/ \E id \in ProductIds : FindById(id)

SpecShop == InitShop /\ [][NextShop]_vars

----------------------------------------------------------------------------
(* Concurrent calls of one GenericService: a call runs up to its next      *)
(* await, so the cache and store operations of two calls interleave.  The  *)
(* Redis client rejects nothing here.                                      *)

Awaiting(op, id, at, local) ==
  [op |-> op, id |-> id, at |-> at, local |-> local]

Call(c, op, id, at, local) ==
  /\ inflight[c] = Null
  /\ inflight' = [inflight EXCEPT ![c] = Awaiting(op, id, at, local)]
  /\ UNCHANGED <<db, cache, ret, saved, nextId, entityName, saleVars,
                 edgeVars>>

At(c, op, at) ==
  /\ inflight[c] # Null
  /\ inflight[c].op = op
  /\ inflight[c].at = at

Resume(c, at, local) ==
  inflight' = [inflight EXCEPT ![c] = [@ EXCEPT !.at = at, !.local = local]]

Settle(c, outcome) ==
  /\ inflight' = [inflight EXCEPT ![c] = Null]
  /\ ret' = Outcome(inflight[c].op, inflight[c].id,
                    IF inflight[c].at = "cache.get" THEN "cache" ELSE "store",
                    outcome)

\* findById: await cache.get
FindByIdCacheGet(c) ==
  /\ At(c, "findById", "cache.get")
  /\ LET cachedEntity == CacheGet(cache, CacheKey(entityName, inflight[c].id))
     IN IF cachedEntity # Null
          THEN Settle(c, TryJSONparse(cachedEntity))
          ELSE Resume(c, "findEntityById", Null) /\ UNCHANGED ret
  /\ UNCHANGED <<db, cache, saved, nextId, entityName, saleVars, edgeVars>>

\* findById: await genericRepository.findEntityById
FindByIdStoreRead(c) ==
  /\ At(c, "findById", "findEntityById")
  /\ LET r == FindEntityById(db[entityName], inflight[c].id)
     IN IF IsThrow(r) THEN Settle(c, r)
        ELSE Resume(c, "cache.set", r.value) /\ UNCHANGED ret
  /\ UNCHANGED <<db, cache, saved, nextId, entityName, saleVars, edgeVars>>

\* findById: await cache.set, then return entity
FindByIdCacheSet(c) ==
  /\ At(c, "findById", "cache.set")
  /\ cache' = CacheSet(cache, CacheKey(entityName, inflight[c].id),
                       JSONstringify(inflight[c].local), TTL)
  /\ Settle(c, Return(inflight[c].local))
  /\ UNCHANGED <<db, saved, nextId, entityName, saleVars, edgeVars>>

\* update: await genericRepository.updateEntity
UpdateStoreWrite(c) ==
  /\ At(c, "update", "updateEntity")
  /\ LET r == UpdateEntity(db[entityName], inflight[c].id, inflight[c].local)
     IN IF IsThrow(r) THEN Settle(c, r) /\ UNCHANGED <<db, saved>>
        ELSE /\ db' = [db EXCEPT ![entityName] = r.table]
             /\ saved' = Without(saved, inflight[c].id)
             /\ Resume(c, "cache.set", r.value)
             /\ UNCHANGED ret
  /\ UNCHANGED <<cache, nextId, entityName, saleVars, edgeVars>>

\* update: await cache.set, then return updatedEntity
UpdateCacheSet(c) ==
  /\ At(c, "update", "cache.set")
  /\ cache' = UpdateCache(cache, entityName, inflight[c].id,
                          inflight[c].local)
  /\ Settle(c, Return(inflight[c].local))
  /\ UNCHANGED <<db, saved, nextId, entityName, saleVars, edgeVars>>

\* delete: await genericRepository.deleteEntity
DeleteStoreWrite(c) ==
  /\ At(c, "delete", "deleteEntity")
  /\ LET r == DeleteEntity(db[entityName], inflight[c].id)
     IN IF IsThrow(r) THEN Settle(c, r) /\ UNCHANGED <<db, saved>>
        ELSE /\ db' = [db EXCEPT ![entityName] = r.table]
             /\ saved' = Without(saved, inflight[c].id)
             /\ Resume(c, "cache.delete", r.value)
             /\ UNCHANGED ret
  /\ UNCHANGED <<cache, nextId, entityName, saleVars, edgeVars>>

\* delete: await cache.delete, then return deleted
DeleteCacheDelete(c) ==
  /\ At(c, "delete", "cache.delete")
  /\ cache' = DeleteCache(cache, entityName, inflight[c].id,
                          inflight[c].local)
  /\ Settle(c, Return(inflight[c].local))
  /\ UNCHANGED <<db, saved, nextId, entityName, saleVars, edgeVars>>

NextRace ==
  \E c \in Sessions :
    \/ \E id \in ProductIds : Call(c, "findById", id, "cache.get", Null)
    \/ \E id \in ProductIds, updatedData \in Partials(entityName) :
         Call(c, "update", id, "updateEntity", updatedData)
    \/ \E id \in ProductIds : Call(c, "delete", id, "deleteEntity", Null)
    \/ FindByIdCacheGet(c)
    \/ FindByIdStoreRead(c)
    \/ FindByIdCacheSet(c)
    \/ UpdateStoreWrite(c)
    \/ UpdateCacheSet(c)
    \/ DeleteStoreWrite(c)
    \/ DeleteCacheDelete(c)

SpecRace == InitShop /\ [][NextRace]_vars

----------------------------------------------------------------------------
(* Failure mapping: the repository catch blocks, the Cognito and KMS       *)
(* adapters, and the Express error handler                                 *)

RepositoryOps ==
  {"createEntity", "findEntityById", "updateEntity", "deleteEntity",
   "getAllEntities", "getEntitiesWithPagination"}
RethrowOps == {"findEntityById", "updateEntity", "deleteEntity"}

RepositoryMessage(op) ==
  CASE op = "createEntity"   -> "Error creating entity"
    [] op = "findEntityById" -> "Error finding entity"
    [] op = "updateEntity"   -> "Error updating entity"
    [] op = "deleteEntity"   -> "Error deleting entity"
    [] op = "getAllEntities" -> "Error fetching all entities"
    [] OTHER                 -> "Error fetching paginated entities"

\* the catch block of a GenericRepository method
RepositoryCatch(op, error) ==
  IF op \in RethrowOps /\ IsError(error) /\ error.name = "NotFoundError"
    THEN error
    ELSE DatabaseError(RepositoryMessage(op),
                       IF IsError(error) THEN error.message
                       ELSE "Unknown error")

mapCognitoErrorToCustomError_Wraps(error, defaultMessage, defaultStatus) ==
  NewBaseAppException(defaultMessage, defaultStatus,
                      IF IsError(error) THEN error.message ELSE String(error))

mapCognitoErrorToCustomError(error, defaultMessage, defaultStatus) ==
  IF IsCustomError(error) THEN error
  ELSE IF ~IsError(error)
    THEN NewBaseAppException(defaultMessage, defaultStatus, String(error))
  ELSE CASE error.name = "NotAuthorizedException" ->
              AuthError("Incorrect credentials or unauthorized.")
         [] error.name = "UserNotFoundException" -> NotFoundError("User")
         [] error.name = "UsernameExistsException" ->
              NewBaseAppException("User already exists.", 409, error.message)
         [] error.name \in {"InvalidParameterException",
                            "InvalidPasswordException"} ->
              RequestValidationError(error.message)
         [] error.name = "CodeMismatchException" ->
              NewBaseAppException("Invalid code.", 400, error.message)
         [] error.name = "ExpiredCodeException" ->
              NewBaseAppException("Expired code.", 400, error.message)
         [] error.name \in {"LimitExceededException",
                            "TooManyRequestsException"} ->
              NewBaseAppException(
                "Too many requests, please try again later.", 429,
                error.message)
         [] OTHER ->
              NewBaseAppException(defaultMessage, defaultStatus,
                                  error.message)

\* the defaults each cognitoUtil function passes to the mapper
CognitoFunctions ==
  {"authenticate", "refreshToken", "registerUser", "confirmUserRegistration",
   "initiatePasswordReset", "completePasswordReset",
   "resendConfirmationCode"}
CognitoDefault(fn) ==
  CASE fn = "authenticate" ->
         [message |-> "Authentication failed", status |-> 401]
    [] fn = "refreshToken" ->
         [message |-> "Refresh token failed", status |-> 401]
    [] fn = "registerUser" ->
         [message |-> "Registration failed", status |-> 500]
    [] fn = "confirmUserRegistration" ->
         [message |-> "User confirmation failed", status |-> 500]
    [] fn = "initiatePasswordReset" ->
         [message |-> "Password reset initiation failed", status |-> 500]
    [] fn = "completePasswordReset" ->
         [message |-> "Password reset failed", status |-> 500]
    [] OTHER ->
         [message |-> "Resending confirmation code failed", status |-> 500]

\* the catch blocks of encryptPassword and decryptPassword
KmsCatch(message, error) ==
  IF IsCustomError(error) THEN error
  ELSE LET errorMessage == IF IsError(error) THEN error.message ELSE ""
       IN NewBaseAppException(message, 500, errorMessage)
EncryptPasswordCatch(error) == KmsCatch("Encryption failed", error)
DecryptPasswordCatch(error) == KmsCatch("Decryption failed", error)

\* new ResponseTemplate(statusCode, status, message[, data]); the time stamp
\* is left out
ResponseTemplate(statusCode, status, message) ==
  [statusCode |-> statusCode, status |-> status, message |-> message]
ResponseTemplateWith(statusCode, status, message, data) ==
  [statusCode |-> statusCode, status |-> status, message |-> message,
   data |-> data]

errorHandler_AlwaysInternal(e) ==
  ResponseTemplate(500, "ERROR", "Internal Server Error")

errorHandler(e) ==
  IF IsCustomError(e)
    THEN IF "metadata" \in DOMAIN e
           THEN ResponseTemplateWith(e.statusCode, "ERROR", e.message,
                                     e.metadata)
           ELSE ResponseTemplate(e.statusCode, "ERROR", e.message)
  ELSE IF IsError(e) /\ e.name = "QueryFailedError"
    THEN ResponseTemplateWith(400, "ERROR", "Database query error",
                              e.message)
  ELSE IF IsError(e) /\ e.name = "EntityNotFoundError"
    THEN ResponseTemplate(404, "ERROR", "Requested resource not found")
  ELSE ResponseTemplate(500, "ERROR", "Internal Server Error")

(* failure values *)
NonErrors == {ThrownString("NON_ERROR_VALUE"), ThrownObject("{code: 1}")}

UniqueViolation ==
  Exception("QueryFailedError", "ER_DUP_ENTRY: Duplicate entry")
ForeignKeyViolation ==
  Exception("QueryFailedError",
            "ER_NO_REFERENCED_ROW_2: a foreign key constraint fails")
StoreExceptions ==
  {UniqueViolation, ForeignKeyViolation,
   Exception("QueryFailedError", "ER_LOCK_DEADLOCK: Deadlock found"),
   Exception("Error", "Connection lost")}

CognitoExceptionNames ==
  {"NotAuthorizedException", "UserNotFoundException",
   "UsernameExistsException", "InvalidParameterException",
   "InvalidPasswordException", "CodeMismatchException",
   "ExpiredCodeException", "LimitExceededException",
   "TooManyRequestsException", "InternalErrorException"}
CognitoFailures ==
  {Exception(name, "Cognito rejected the request") :
     name \in CognitoExceptionNames}
    \cup {AuthError("Authentication failed: Token(s) missing"),
          RedisError("Could not fetch parameter")}
    \cup NonErrors

KmsFailures ==
  {BaseAppException("Encryption failed: No encrypted data received"),
   BaseAppException("Decryption failed: No decrypted data received"),
   Exception("AccessDeniedException", "KMS rejected the request")}
    \cup NonErrors

\* what else a route may hand to next(): the built-in errors of JSON.parse
\* and JSON.stringify, TypeORM exceptions raised outside a repository, the
\* two domain errors no repository constructs, a thrown plain value
BoundaryValues ==
  StoreExceptions
    \cup {Exception("EntityNotFoundError", "Could not find any entity"),
          SyntaxError("Unexpected token in JSON"),
          TypeError("Converting circular structure to JSON"),
          DuplicateRecordError("Duplicate record"),
          ForeignKeyViolationError("Foreign key violation")}
    \cup NonErrors

Failure(layer, op, value) == [layer |-> layer, op |-> op, value |-> value]

\* a failure on its way to next(): no response has been written yet
Unanswered ==
  /\ res' = Null
  /\ UNCHANGED <<db, nextId, cache, entityName, saleVars, layerVars,
                 inflight>>

\* a GenericRepository method whose store call, or whose own not-found
\* check, throws
RepositoryFails(op, error) ==
  /\ failure' = Failure("repository", op, error)
  /\ err' = RepositoryCatch(op, error)
  /\ Unanswered

CognitoFails(fn, error) ==
  /\ failure' = Failure("cognito", fn, error)
  /\ err' = mapCognitoErrorToCustomError(error, CognitoDefault(fn).message,
                                         CognitoDefault(fn).status)
  /\ Unanswered

EncryptPasswordFails(error) ==
  /\ failure' = Failure("kms", "encryptPassword", error)
  /\ err' = EncryptPasswordCatch(error)
  /\ Unanswered

DecryptPasswordFails(error) ==
  /\ failure' = Failure("kms", "decryptPassword", error)
  /\ err' = DecryptPasswordCatch(error)
  /\ Unanswered

Raise(e) ==
  /\ failure' = Null
  /\ err' = e
  /\ Unanswered

\* next(error) reaches the error-handling middleware
ErrorHandler ==
  /\ err # Null
  /\ res = Null
  /\ res' = errorHandler(err)
  /\ UNCHANGED <<db, nextId, cache, entityName, saleVars, layerVars,
                 failure, err, inflight>>

InitBoundary == InitList

NextBoundary ==
  \/ \E op \in RepositoryOps, error \in StoreExceptions \cup NonErrors :
       RepositoryFails(op, error)
  \/ \E op \in RethrowOps, error \in {NotFoundError("Entity")} :
       RepositoryFails(op, error)
  \/ \E fn \in CognitoFunctions, error \in CognitoFailures :
       CognitoFails(fn, error)
  \/ \E error \in KmsFailures : EncryptPasswordFails(error)
  \/ \E error \in KmsFailures : DecryptPasswordFails(error)
  \/ \E e \in BoundaryValues : Raise(e)
  \/ ErrorHandler

SpecBoundary == InitBoundary /\ [][NextBoundary]_vars

----------------------------------------------------------------------------
(* ProductService: the lookup by name next to the inherited operations.    *)
(* A cache key is a template string; two templates that produce the same   *)
(* string produce the same key here: `product:${name}` is the key of        *)
(* findAll when name is 'all' and the key of findById(n) when name is the  *)
(* decimal text of n.                                                      *)

ProductNames == {"all", "2", "soap"}
NamedProducts == [name : ProductNames, available_quantity : {5}]
Restock == [available_quantity |-> 2]
SavedIds == 1..MaxRows

\* the number a string of digits denotes, 0 for any other string
Digits(text) ==
  CASE text = "1" -> 1
    [] text = "2" -> 2
    [] text = "3" -> 3
    [] OTHER      -> 0

NameKey(name) ==
  IF name = "all" THEN AllKey("product")
  ELSE IF Digits(name) # 0 THEN CacheKey("product", Digits(name))
  ELSE <<"product", "name", name, 0, 0>>

\* repo.findOneBy({name})
FindProductByName(table, name) ==
  LET ids == {id \in DOMAIN table : table[id].name = name}
  IN IF ids = {} THEN Return(Null)
     ELSE Return(table[CHOOSE id \in ids : TRUE])

\* findByName's argument, kept with its outcome
Named(o, name) ==
  [f \in DOMAIN o \cup {"name"} |-> IF f = "name" THEN name ELSE o[f]]

\* save of a product: the name column is unique, and the repository turns
\* the store's rejection into a DatabaseError
SaveProduct(entity) ==
  IF FindProductByName(db.product, entity.name).value # Null
    THEN /\ ret' = Outcome("save", 0, "store",
                           Throw(RepositoryCatch("createEntity",
                                                 UniqueViolation)))
         /\ UNCHANGED <<db, nextId, cache, saved, entityName, saleVars,
                        edgeVars, inflight>>
    ELSE Save(entity)

FindByName(name) ==
  /\ LET cacheKey == NameKey(name)
         cachedProduct == CacheGet(cache, cacheKey)
         r == FindProductByName(db.product, name)
         Done(o) == ret' = Named(o, name)
     IN \/ /\ Done(Faulted(Outcome("findByName", 0, "cache",
                                   Throw(CacheGetError)), "get"))
           /\ UNCHANGED cache
        \/ IF cachedProduct # Null
             THEN /\ Done(Hit("findByName", 0, cachedProduct))
                  /\ UNCHANGED cache
           ELSE IF r.value # Null
             THEN \/ /\ cache' = CacheSet(cache, cacheKey,
                                          JSONstringify(r.value), TTL)
                     /\ Done(Outcome("findByName", 0, "store", r))
                  \/ /\ Done(Faulted(Outcome("findByName", 0, "store",
                                             Throw(CacheSetError)), "set"))
                     /\ UNCHANGED cache
           ELSE /\ Done(Outcome("findByName", 0, "store", r))
                /\ UNCHANGED cache
  /\ UNCHANGED <<db, nextId, entityName, saved, saleVars, edgeVars, inflight>>

NextKeys ==
  \/ \E entity \in NamedProducts : SaveProduct(entity)
  \/ \E id \in SavedIds : FindById(id)
  \/ \E id \in SavedIds : Update(id, Restock)
  \/ \E id \in SavedIds : Delete(id)
  \/ FindAll
  \/ \E name \in ProductNames : FindByName(name)

SpecKeys == InitList /\ [][NextKeys]_vars

----------------------------------------------------------------------------
(* Properties of the sale orchestrator (Spec)                              *)

RECURSIVE LineTotal(_)
LineTotal(sales) ==
  IF sales = <<>> THEN 0
  ELSE Head(sales).quantity * Head(sales).sale_price + LineTotal(Tail(sales))

RECURSIVE QuantityOf(_, _)
QuantityOf(sales, p) ==
  IF sales = <<>> THEN 0
  ELSE (IF Head(sales).productId = p THEN Head(sales).quantity ELSE 0)
       + QuantityOf(Tail(sales), p)

Succeeded(s) == pc[s] = "done" /\ result[s] = Return(TRUE)
Failed(s)    == pc[s] = "done" /\ IsThrow(result[s])

\* C1: whatever processSales calls have run, every product's
\* available_quantity is at least 0 (stock starts at 0 or more and every
\* requested quantity is a positive integer).
C1_StockNeverNegative ==
  \A p \in DOMAIN db.product : db.product[p].available_quantity >= 0

\* two calls have succeeded, each selling one unit of the same product, and
\* that product's stock has reached exactly 0
C1_Witness ==
  /\ calls = 2 /\ Succeeded("s1")
  /\ \A id \in {1, 2} : CacheKey("bill", id) \in DOMAIN cache
  /\ \A id \in {1, 2} : id \in DOMAIN db.bill /\ Len(db.bill[id].sales) >= 1
  /\ \E p \in DOMAIN db.product : db.product[p].available_quantity = 0

\* C2: a call that fails at a line (missing product or insufficient stock)
\* leaves every product's stock as it was before the call and persists no
\* bill.
C2_NoPartialSale ==
  \A s \in Sessions :
    (Failed(s) /\ result[s].at = "findProduct")
      => db.product = pre[s].product /\ db.bill = pre[s].bill

\* C3: a call that fails the stock check of a line leaves the stock of that
\* line's product as it was before the call, also when an earlier line of
\* the request names the same product, and persists no bill.
C3_InsufficientStockKeepsStock ==
  \A s \in Sessions :
    (Failed(s) /\ result[s].error.message = "Insufficient stock for product")
      => LET p == dto[s].sales[idx[s]].productId
         IN db.product[p] = pre[s].product[p] /\ db.bill = pre[s].bill

\* C4: every bill in the store has total_amount equal to the sum of
\* quantity x sale_price over the lines of the request that persisted it,
\* and its sales are exactly those lines.
C4_BillTotal ==
  \A id \in DOMAIN db.bill :
    LET b == db.bill[id]
        d == billRequest[id]
    IN /\ b.total_amount = LineTotal(d.sales)
       /\ Len(b.sales) = Len(d.sales)
       /\ \A i \in 1..Len(d.sales) :
            /\ b.sales[i].quantity = d.sales[i].quantity
            /\ b.sales[i].sale_price = d.sales[i].sale_price
            /\ b.sales[i].product = d.sales[i].productId

\* a persisted bill of two lines, 1 x 12 and 3 x 12
C4_Witness ==
  \E id \in DOMAIN db.bill :
    /\ Len(db.bill[id].sales) = 2
    /\ db.bill[id].sales[1].quantity # db.bill[id].sales[2].quantity
    /\ db.bill[id].total_amount = 48

\* C5: a call that succeeds with no other request running has reduced each
\* product's stock by exactly the quantities the request asks of that
\* product, and the bill total is the sum of its lines.
C5_ExactDecrement ==
  \A s \in Sessions :
    Succeeded(s) =>
      /\ DOMAIN db.product = DOMAIN pre[s].product
      /\ \A p \in DOMAIN pre[s].product :
           db.product[p].available_quantity =
             pre[s].product[p].available_quantity - QuantityOf(dto[s].sales, p)
      /\ savedBill[s].total_amount = LineTotal(dto[s].sales)

\* stock 5, one line of quantity 3 at sale price 12: stock 2, total 36
C5_Witness ==
  /\ Succeeded("s1")
  /\ dto["s1"].sales = <<[productId |-> 1, quantity |-> 3, sale_price |-> 12]>>
  /\ pre["s1"].product[1].available_quantity = 5
  /\ db.product[1].available_quantity = 2
  /\ savedBill["s1"].total_amount = 36

\* C6: a call whose customerId matches no customer fails with a NotFound
\* error of status 404 and has written nothing to the store.
C6_UnknownCustomer ==
  \A s \in Sessions :
    (pc[s] = "done" /\ dto[s].customerId \notin DOMAIN pre[s].customer)
      => /\ IsThrow(result[s])
         /\ result[s].error.name = "NotFoundError"
         /\ result[s].error.statusCode = 404
         /\ log[s] = <<>>
         /\ Tables = pre[s]

\* a two-line request for a customer the store does not hold has returned
C6_Witness ==
  /\ pc["s1"] = "done"
  /\ dto["s1"].customerId \notin DOMAIN pre["s1"].customer
  /\ Len(dto["s1"].sales) = 2
  /\ \A i \in 1..2 : dto["s1"].sales[i].productId \in DOMAIN db.product

\* C7: every bill in the store has at least one sale line.
C7_NoEmptyBill ==
  \A id \in DOMAIN db.bill : Len(db.bill[id].sales) >= 1

----------------------------------------------------------------------------
(* Properties of the cache-aside layer (SpecCache)                         *)

Returned(op) == "op" \in DOMAIN ret /\ ret.op = op /\ ~IsThrow(ret.outcome)

\* C8: findById of an id that save returned, with no update or delete of it
\* since, returns a value equal to the entity save returned, from the cache
\* as well as from the store.
C8_RoundTrip ==
  ("op" \in DOMAIN ret /\ ret.op = "findById" /\ ret.id \in DOMAIN saved)
    => ret.outcome = Return(saved[ret.id])

\* C9: after a successful update the entry {entityName}:{id} holds the
\* serialised entity the store returned, which is the store's row; after a
\* successful delete the entry and the row are gone.
C9_CacheFollowsStore ==
  /\ Returned("update") =>
       LET key == CacheKey(entityName, ret.id)
       IN /\ key \in DOMAIN cache
          /\ cache[key].value = JSONstringify(ret.outcome.value)
          /\ ret.id \in DOMAIN db[entityName]
          /\ ret.outcome.value = db[entityName][ret.id]
  /\ Returned("delete") =>
       /\ CacheKey(entityName, ret.id) \notin DOMAIN cache
       /\ ret.id \notin DOMAIN db[entityName]

\* an update of one of two bills has returned and its refreshed entry is the
\* only one in the cache
C9_Witness ==
  /\ Returned("update")
  /\ ret.id \notin DOMAIN saved
  /\ entityName = "bill"
  /\ ret.outcome.value.total_amount = 36
  /\ Cardinality(DOMAIN cache) = 1 /\ Cardinality(DOMAIN db.bill) = 2

\* C10: findById of an id held by neither the cache nor the store returns
\* null and raises no error.
C10_AbsentIsNull ==
  ("op" \in DOMAIN ret /\ ret.op = "findById" /\ ret.source = "store"
     /\ ret.id \notin DOMAIN db[entityName]
     /\ CacheKey(entityName, ret.id) \notin DOMAIN cache)
    => ret.outcome = Return(Null)

----------------------------------------------------------------------------
(* Properties of the cache-aside layer under cache failures               *)

FindOps == {"findById", "findAll", "findPaginated"}

\* C11: whenever a cache operation fails during findById, findAll or
\* findPaginated (the read or the write is rejected, or the cached value
\* cannot be parsed), the call throws a RedisError with status 500 and
\* returns nothing.
C11_CacheFailureIsCacheError ==
  ("fault" \in DOMAIN ret /\ ret.op \in FindOps)
    => /\ IsThrow(ret.outcome)
       /\ ret.outcome.error.name = "RedisError"
       /\ ret.outcome.error.statusCode = 500

\* the step is a call of op: every action of the layer leaves its operation
\* and outcome in ret
Called(op) == "op" \in DOMAIN ret' /\ ret'.op = op

C13_FailedDeleteKeepsCache ==
  [][(Called("delete") /\ ret'.id \notin DOMAIN db[entityName])
       => /\ cache' = cache
          /\ IsThrow(ret'.outcome)
          /\ "fault" \notin DOMAIN ret']_vars

\* delete was refused with NotFoundError for an id whose entry is still in
\* the cache (left there by an earlier delete whose eviction failed)
C13_Witness ==
  /\ "op" \in DOMAIN ret /\ ret.op = "delete"
  /\ IsThrow(ret.outcome)
  /\ ret.outcome.error.name = "NotFoundError"
  /\ CacheKey(entityName, ret.id) \in DOMAIN cache

----------------------------------------------------------------------------
(* Properties of the failure mapping (SpecBoundary)                        *)

FailedIn(layers) == failure # Null /\ failure.layer \in layers

\* C14: a store failure leaves the repository classified: a unique
\* violation as DuplicateRecordError (409), a foreign-key violation as
\* ForeignKeyViolationError (400), any other as DatabaseError (500), and
\* what leaves the repository is always a domain error.
C14_StoreFailureClassified ==
  (FailedIn({"repository"}) /\ ~IsCustomError(failure.value))
    => /\ IsCustomError(err)
       /\ failure.value = UniqueViolation
            => err.name = "DuplicateRecordError" /\ err.statusCode = 409
       /\ failure.value = ForeignKeyViolation
            => /\ err.name = "ForeignKeyViolationError"
               /\ err.statusCode = 400
       /\ failure.value \notin {UniqueViolation, ForeignKeyViolation}
            => err.name = "DatabaseError" /\ err.statusCode = 500

\* C15: the response to a value that is no domain error has status 500, the
\* message 'Internal Server Error' and no data.
C15_UnclassifiedIs500 ==
  (res # Null /\ ~IsCustomError(err))
    => /\ res.statusCode = 500
       /\ res.message = "Internal Server Error"
       /\ "data" \notin DOMAIN res

TaxonomyStatus(e) ==
  CASE e.name = "RequestValidationError"   -> 400
    [] e.name = "AuthError"                -> 401
    [] e.name = "NotFoundError"            -> 404
    [] e.name = "DuplicateRecordError"     -> 409
    [] e.name = "ForeignKeyViolationError" -> 400
    [] e.name = "DatabaseError"            -> 500
    [] e.name = "RedisError"               -> 500
    [] e.name = "BaseAppException"         -> e.statusCode

\* C16: the response to a domain error has the status of the error's kind
\* (for a BaseAppException the status it was constructed with), the envelope
\* status 'ERROR' and the error's message.
C16_StatusFollowsTaxonomy ==
  (res # Null /\ IsCustomError(err))
    => /\ res.statusCode = TaxonomyStatus(err)
       /\ res.status = "ERROR"
       /\ res.message = err.message

\* the handler has answered 400 to the RequestValidationError that the
\* Cognito mapper made of an InvalidPasswordException
C16_Witness ==
  /\ res # Null
  /\ FailedIn({"cognito"})
  /\ IsError(failure.value)
  /\ failure.value.name = "InvalidPasswordException"
  /\ err.name = "RequestValidationError"
  /\ res.statusCode = 400

C18_PlainValueKept ==
  (FailedIn({"cognito", "kms"}) /\ ~IsError(failure.value))
    => /\ err.name = "BaseAppException"
       /\ "metadata" \in DOMAIN err
       /\ err.metadata = failure.value.value

\* C19: a findPaginated(page, perPage) answered by the store returns the
\* records (page - 1) * perPage + 1 .. page * perPage of the table.
C19_PageOffsets ==
  (Returned("findPaginated") /\ ret.source = "store")
    => ret.outcome.value.data =
         GetEntitiesWithPagination(db[entityName],
                                   (ret.skip - 1) * ret.take, ret.take).data

----------------------------------------------------------------------------
(* Properties of concurrent sales (SpecConc)                               *)

BothSold(p) ==
  \A s \in Sessions : Succeeded(s) /\ dto[s].sales[1].productId = p

\* C20: when two concurrent one-line requests for one product have both
\* succeeded, the stock has dropped by both quantities or by the quantity of
\* one request only: a request that read the stock before the other wrote
\* its decrement overwrites that decrement, so both sales stand although
\* together they may exceed the stock (the witness).
C20_OversellByLostUpdate ==
  \A p \in ProductIds :
    BothSold(p) =>
      LET q1 == dto["s1"].sales[1].quantity
          q2 == dto["s2"].sales[1].quantity
      IN InitStock[p] - db.product[p].available_quantity
           \in {q1, q2, q1 + q2}

\* both requests read stock 5 of product 1 and passed the check for 3 units
\* before either wrote; both succeeded, 6 units are sold and the stock is 2
C20_Witness ==
  /\ BothSold(1)
  /\ \A s \in Sessions :
       /\ dto[s].sales[1].quantity = 3
       /\ product[s].available_quantity + 3 = InitStock[1]
  /\ Cardinality(DOMAIN db.bill) = 2
  /\ db.product[1].available_quantity = 2

----------------------------------------------------------------------------
(* Properties of the store after sales                                     *)

RECURSIVE SoldIn(_, _)
SoldIn(sales, p) ==
  IF sales = <<>> THEN 0
  ELSE (IF Head(sales).product = p THEN Head(sales).quantity ELSE 0)
       + SoldIn(Tail(sales), p)

RECURSIVE SoldInBills(_, _)
SoldInBills(ids, p) ==
  IF ids = {} THEN 0
  ELSE LET id == CHOOSE i \in ids : TRUE
       IN SoldIn(db.bill[id].sales, p) + SoldInBills(ids \ {id}, p)

Quiescent == \A s \in Sessions : pc[s] \in {"idle", "done"}

\* C21: whenever no processSales call is in progress, every product's
\* initial stock minus its current stock equals the quantity of that product
\* over the lines of all persisted bills.
C21_StockConservation ==
  Quiescent =>
    \A p \in DOMAIN db.product :
      InitStock[p] - db.product[p].available_quantity
        = SoldInBills(DOMAIN db.bill, p)

\* C22: once processSales has succeeded, the entry product:{id} of every
\* product sold, if the cache holds one, carries the store's row of that
\* product, so that findById returns the decremented stock.
C22_SoldProductCacheFresh ==
  Succeeded("s1") =>
    \A i \in 1..Len(dto["s1"].sales) :
      LET p == dto["s1"].sales[i].productId
          key == CacheKey("product", p)
      IN key \in DOMAIN cache => JSONparse(cache[key].value) = db.product[p]

----------------------------------------------------------------------------
(* Properties of concurrent calls of the cache-aside layer (SpecRace)      *)

NoCallOn(id) ==
  \A c \in Sessions : inflight[c] = Null \/ inflight[c].id # id

\* C23: whenever no call on id i is in progress, the entry
\* {entityName}:{i}, if the cache holds one, is the serialised row the store
\* holds for i.
C23_CacheAgreesWithStore ==
  \A id \in ProductIds :
    (NoCallOn(id) /\ CacheKey(entityName, id) \in DOMAIN cache)
      => /\ id \in DOMAIN db[entityName]
         /\ cache[CacheKey(entityName, id)].value
              = JSONstringify(db[entityName][id])

----------------------------------------------------------------------------
(* Properties of the steps of a sale (Spec)                                *)

\* what the call awaited at each step throws
StepErrors(at) ==
  CASE at = "findCustomer" -> {NotFoundError("Entity")}
    [] at = "findProduct"  ->
         {NotFoundError("Entity"),
          BaseAppException("Insufficient stock for product")}
    [] at = "updateStock"  -> {NotFoundError("Entity")}
    [] at = "createBill"   -> {}
    [] at = "getBucket"    -> {RedisError("Could not fetch parameter")}
    [] at = "uploadFile"   -> {BaseAppException("Error uploading file")}
    [] at = "cacheBill"    ->
         {RedisError("Redis set error"),
          TypeError("Converting circular structure to JSON")}

LineSteps   == {"findProduct", "updateStock"}
BeforeBill  == {"findCustomer"} \cup LineSteps
AfterBill   == {"getBucket", "uploadFile", "cacheBill"}

BillCached(s) == CacheKey("bill", savedBill[s].id) \in DOMAIN cache

WritesOf(s, lines, billId) ==
  [i \in 1..lines |-> <<"updateEntity", dto[s].sales[i].productId>>]
    \o (IF billId = 0 THEN <<>> ELSE <<<<"createEntity", billId>>>>)

\* C25: within a call the bill is written only after every requested line,
\* in request order, has had its decrement written; the receipt is uploaded
\* only after the bill write; bill:{id} is cached only after the upload; and
\* the call returns true only after all of them.
C25_StepOrder ==
  \A s \in Sessions :
    /\ pc[s] \in LineSteps
         => savedBill[s] = Null /\ log[s] = WritesOf(s, idx[s] - 1, 0)
    /\ savedBill[s] # Null
         => /\ log[s] = WritesOf(s, Len(dto[s].sales), savedBill[s].id)
            /\ savedBill[s].id \in receipts
                 => savedBill[s].id \in DOMAIN db.bill
            /\ BillCached(s) => savedBill[s].id \in receipts
    /\ Succeeded(s)
         => /\ savedBill[s] # Null
            /\ savedBill[s].id \in DOMAIN db.bill
            /\ savedBill[s].id \in receipts
            /\ BillCached(s)

\* a sale of two lines for two different products has returned true
C25_Witness ==
  /\ Succeeded("s1")
  /\ Len(dto["s1"].sales) = 2
  /\ dto["s1"].sales[1].productId # dto["s1"].sales[2].productId
  /\ Len(log["s1"]) = 3

\* C26: a call that failed at the bucket lookup, the upload or the bill cache
\* write leaves its bill in the store and every stock decrement of its lines
\* in place.
C26_FailedAfterBillKeepsSale ==
  \A s \in Sessions :
    (Failed(s) /\ result[s].at \in AfterBill)
      => /\ savedBill[s].id \in DOMAIN db.bill
         /\ db.bill[savedBill[s].id] = savedBill[s]
         /\ \A p \in DOMAIN pre[s].product :
              db.product[p].available_quantity =
                pre[s].product[p].available_quantity
                  - QuantityOf(dto[s].sales, p)

\* the upload of the receipt of a 3-unit sale failed: stock 5 is now 2 and
\* the bill of 36 is in the store
C26_Witness ==
  /\ Failed("s1")
  /\ result["s1"].at = "uploadFile"
  /\ pre["s1"].product[1].available_quantity = 5
  /\ db.product[1].available_quantity = 2
  /\ \E id \in DOMAIN db.bill : db.bill[id].total_amount = 36

----------------------------------------------------------------------------
(* Properties of the cached lists and of the secondary keys                *)

\* C27: a findAll or findPaginated that returns, returns what the store
\* holds at that moment: a list cached before a save, update or delete is
\* not served after it.
C27_ListsFollowStore ==
  /\ Returned("findAll")
       => JSONstringifyAll(ret.outcome.value)
            = JSONstringifyAll(GetAllEntities(db[entityName]))
  /\ Returned("findPaginated")
       => JSONstringifyPage(ret.outcome.value)
            = JSONstringifyPage(
                GetEntitiesWithPagination(db[entityName], ret.skip, ret.take))

\* the keys findById, findAll and findPaginated read and write
PrimaryKeys ==
  {CacheKey("product", id) : id \in RowIds} \cup ListKeys("product")

\* C28: a findByName that returns (under a key no other lookup uses)
\* returns what the store holds for that name at that moment, also after an
\* update or a delete of the product.
C28_SecondaryKeyFollowsStore ==
  (Returned("findByName") /\ NameKey(ret.name) \notin PrimaryKeys)
    => ret.outcome.value = FindProductByName(db.product, ret.name).value

\* C30: the key under which findByName(n) finds a cached value is never a
\* key of findById, findAll or findPaginated, whatever the name n is.
C30_NameKeysApart ==
  (Returned("findByName") /\ ret.source = "cache")
    => NameKey(ret.name) \notin PrimaryKeys

\* C29: a save or an update that throws has left the store as it was.
C29_FailedWriteLeavesStore ==
  [][((Called("save") \/ Called("update")) /\ IsThrow(ret'.outcome))
       => db' = db]_vars

====
